---- MODULE Spec2Model ----
(***************************************************************************)
(* PA Titans System Generator (src/app.py): generate_system, perp_velocity, *)
(* sanitize_filename, create_zip_file and the Streamlit script that calls   *)
(* them.                                                                    *)
(*                                                                          *)
(* Numbers.  The program computes positions and speeds in binary floating   *)
(* point.  Here a length is an integer number of thousandths of a game unit *)
(* ("milli"), a stored position (round(px, 2)) an integer number of         *)
(* hundredths ("centi"), and every rounding to an integer is the exact      *)
(* round-half-even of the real value, computed with integer comparisons.    *)
(* Strings the program takes apart (system names, file names) are sequences *)
(* of one-character strings.                                                *)
(***************************************************************************)
EXTENDS Integers, Sequences, FiniteSets, TLC

\* rng: the state of the random module's generator, shared by every call
\* lastCall: the function call in progress or last made, with what it left behind
\* generated_systems: st.session_state.generated_systems (None until the first click)
\* zip_file, download_file: what the two download buttons of the page offer
VARIABLES rng, lastCall, generated_systems, zip_file, download_file

vars == <<rng, lastCall, generated_systems, zip_file, download_file>>

\* Python's None and a present value, for an argument or variable that may be None
None == <<>>

Some(x) == <<x>>

----------------------------------------------------------------------------
(* Bounds of the model *)

\* seeds passed as rng_seed are 0..MaxSeed
MaxSeed == 1
\* orbital_distance_step ranges over -1..MaxStep in direct calls
MaxStep == 1
\* num_additional_planets ranges over -3..SmallAdditional (and the two counts
\* at the end of the angle pool) in direct calls
SmallAdditional == 2
\* "Number of Systems to Generate" and the lists given to create_zip_file
MaxSystems == 3
\* longest string given to sanitize_filename, besides the named examples
MaxLen == 3

----------------------------------------------------------------------------
(* Integer helpers *)

Abs(x) == IF x < 0 THEN 0 - x ELSE x

Sign(x) == IF x < 0 THEN 0 - 1 ELSE IF x > 0 THEN 1 ELSE 0

RECURSIVE Gcd(_, _)
Gcd(a, b) == IF b = 0 THEN a ELSE Gcd(b, a % b)

\* Python's round() of the rational num/den (den > 0): to nearest, ties to even
RoundHalfEven(num, den) ==
  LET q == num \div den
      r == num % den
  IN  IF 2 * r < den THEN q
      ELSE IF 2 * r > den THEN q + 1
      ELSE IF q % 2 = 0 THEN q ELSE q + 1

\* floor(sqrt(n)), by bisection on lo..hi (lo * lo <= n < (hi + 1) * (hi + 1))
RECURSIVE IsqrtBetween(_, _, _)
IsqrtBetween(n, lo, hi) ==
  IF lo >= hi THEN lo
  ELSE IF ((lo + hi + 1) \div 2) * ((lo + hi + 1) \div 2) <= n
       THEN IsqrtBetween(n, (lo + hi + 1) \div 2, hi)
       ELSE IsqrtBetween(n, lo, ((lo + hi + 1) \div 2) - 1)

\* <<quotient, remainder>> of (a * p) / q for a, p >= 0 and q > 0, two decimal digits
\* of a at a time so that no intermediate product leaves the integer range
RECURSIVE MulDiv(_, _, _)
MulDiv(a, p, q) ==
  IF a = 0 THEN <<0, 0>>
  ELSE LET h == MulDiv(a \div 100, p, q)
           t == 100 * h[2] + (a % 100) * p
       IN  <<100 * h[1] + t \div q, t % q>>

\* decimal digits of n >= 0, as characters (str(n))
Digit(d) == CASE d = 0 -> "0" [] d = 1 -> "1" [] d = 2 -> "2" [] d = 3 -> "3"
              [] d = 4 -> "4" [] d = 5 -> "5" [] d = 6 -> "6" [] d = 7 -> "7"
              [] d = 8 -> "8" [] d = 9 -> "9"

RECURSIVE NatToStr(_)
NatToStr(n) == IF n < 10 THEN <<Digit(n)>> ELSE Append(NatToStr(n \div 10), Digit(n % 10))

\* str(n) for an int
IntToStr(n) == IF n < 0 THEN <<"-">> \o NatToStr(0 - n) ELSE NatToStr(n)

----------------------------------------------------------------------------
(* Utility functions *)

\* str.isalnum() on the characters of the model's alphabet
IsAlnum(c) == c \in {"0", "1", "2", "3", "4", "5", "6", "7", "8", "9",
                     "A", "B", "C", "R", "S", "a", "d", "e", "h", "l", "m", "n",
                     "o", "p", "s", "t", "u", "y"}

\* the generator expression of sanitize_filename: one character for one character
SafeCharWrong(c) == IF IsAlnum(c) \/ c \in {" ", "_", "-", "."} THEN c ELSE "_"

SafeChar(c) == IF IsAlnum(c) \/ c \in {" ", "_", "-"} THEN c ELSE "_"

\* str.replace(" ", "_")
ReplaceSpaces(s) == [i \in 1..Len(s) |-> IF s[i] = " " THEN "_" ELSE s[i]]

sanitize_filename(name) == ReplaceSpaces([i \in 1..Len(name) |-> SafeChar(name[i])])

\* the scale factor of calculate_orbital_velocity: speed = 15000 / sqrt(distance)
SpeedScale == 15000

\* int(round(c / magnitude * speed)) for one component c of the tangent (-py, px):
\* the nearest integer to Sign(c) * sqrt(x), x = SpeedScale^2 * c^2 / ((px^2 + py^2) * distance).
\* With F = floor(4x), the nearest integer to sqrt(x) is (isqrt(F) + 1) div 2, and a tie
\* (4x an odd square) goes to the even neighbour.  px, py and c are divided by gcd(px, py)
\* first, which leaves c / magnitude as it is.
VelocityComponent(c, px, py, distance) ==
  LET g   == Gcd(Abs(px), Abs(py))
      qr  == MulDiv(4 * SpeedScale * SpeedScale,
                    (Abs(c) \div g) * (Abs(c) \div g),
                    (px \div g) * (px \div g) + (py \div g) * (py \div g))
      F   == qr[1] \div distance
      exact == qr[2] = 0 /\ qr[1] % distance = 0
      s   == IsqrtBetween(F, 0, 2 * SpeedScale)
      n   == IF exact /\ s * s = F /\ s % 2 = 1
             THEN (IF ((s - 1) \div 2) % 2 = 0 THEN (s - 1) \div 2 ELSE (s + 1) \div 2)
             ELSE (s + 1) \div 2
  IN  Sign(c) * n

perp_velocity_flipped(px, py, distance) ==
  IF distance = 0 \/ (px = 0 /\ py = 0) THEN <<0, 0>>
  ELSE <<VelocityComponent(py, px, py, distance),
         VelocityComponent(px, px, py, distance)>>

\* perp_velocity for distance >= 0 (a negative distance raises in math.sqrt: see
\* generate_system); the result is <<vx, vy>>
perp_velocity(px, py, distance) ==
  IF distance = 0 \/ (px = 0 /\ py = 0) THEN <<0, 0>>
  ELSE <<VelocityComponent(0 - py, px, py, distance),
         VelocityComponent(px, px, py, distance)>>

----------------------------------------------------------------------------
(* The module-level random generator (Python's random) *)

\* The generator is a deterministic state machine; the model keeps 2^3 of its states.
RngMod == 2 ^ 3

RngStates == 0..(RngMod - 1)

\* random.seed(s): the state is a function of the seed alone
SeedState(s) == (7 * s + 3) % RngMod

\* one step of the generator (a full-period congruential step)
NextRng(r) == (5 * r + 3) % RngMod

\* random.randrange(n) drawn from state r: the generator moves to NextRng(r)
RandBelow(r, n) == (NextRng(r) * n) \div RngMod

\* random.randint(a, b)
RandInt(r, a, b) == a + RandBelow(r, b - a + 1)

\* random.choice(seq)
Choice(r, seq) == seq[RandBelow(r, Len(seq)) + 1]

\* random.sample(pool, k) for 0 <= k <= Len(pool): k draws without replacement; the
\* chosen slot is refilled with the last live element of the pool
RECURSIVE SampleWithReplacement(_, _, _, _, _)
SampleWithReplacement(pool, n, k, r, acc) ==
  IF k = 0 THEN [picked |-> acc, rng |-> r]
  ELSE SampleWithReplacement(pool, n, k - 1, NextRng(r), Append(acc, pool[RandBelow(r, n) + 1]))

RECURSIVE SampleFrom(_, _, _, _, _)
SampleFrom(pool, n, k, r, acc) ==
  IF k = 0 THEN [picked |-> acc, rng |-> r]
  ELSE SampleFrom([pool EXCEPT ![RandBelow(r, n) + 1] = pool[n]], n - 1, k - 1,
                  NextRng(r), Append(acc, pool[RandBelow(r, n) + 1]))

----------------------------------------------------------------------------
(* Geometry *)

\* range(0, 360, 10) has NumAngles elements
NumAngles == 36

AnglePool == [i \in 1..NumAngles |-> 10 * (i - 1)]

\* 1000 * cos of 0, 10, ..., 90 degrees
CosTable == <<1000, 985, 940, 866, 766, 643, 500, 342, 174, 0>>

\* 1000 * math.cos(math.radians(a)) for a in AnglePool
CosMilli(a) ==
  IF a <= 90 THEN CosTable[(a \div 10) + 1]
  ELSE IF a <= 180 THEN 0 - CosTable[((180 - a) \div 10) + 1]
  ELSE IF a <= 270 THEN 0 - CosTable[((a - 180) \div 10) + 1]
  ELSE CosTable[((360 - a) \div 10) + 1]

\* 1000 * math.sin(math.radians(a))
SinMilli(a) == CosMilli((a + 270) % 360)

----------------------------------------------------------------------------
(* System generation *)

StartingBiomes == <<"earth", "desert", "lava", "moon", "tropical", "ice", "metal">>

ResourceBiomes == <<"earth", "desert", "lava", "moon", "tropical", "ice", "metal", "gas">>

\* "Random System " and the default name f"Random System {n}+2"
RandomSystemPrefix == <<"R", "a", "n", "d", "o", "m", " ", "S", "y", "s", "t", "e", "m", " ">>

DefaultName(n) == RandomSystemPrefix \o IntToStr(n) \o <<"+", "2">>

\* the "orbit" entry of a planet; period = round(distance / 1000, 1), in tenths
Orbit(distance) == [distance |-> distance, period_tenths |-> RoundHalfEven(distance, 100)]

\* round(p, 2) of a length p given in thousandths: hundredths
Round2(p) == RoundHalfEven(p, 10)

\* the planet of one pass of the first loop; r is the generator state at its start
StartingPlanet(i, cfg, distance, angle, r) ==
  LET px == distance * CosMilli(angle)
      py == distance * SinMilli(angle)
      v  == perp_velocity(px, py, distance)
  IN  [name |-> <<"Starting Planet ">> \o IntToStr(i + 1),
       mass |-> 10000,
       position_x |-> Round2(px), position_y |-> Round2(py),
       velocity_x |-> v[1], velocity_y |-> v[2],
       required_thrust_to_move |-> 0,
       starting_planet |-> TRUE,
       respawn |-> FALSE, start_destroyed |-> FALSE,
       min_spawn_delay |-> 0, max_spawn_delay |-> 0,
       planet |-> [seed |-> RandInt(r, 0, 999999),
                   radius |-> cfg.starting_planet_radius,
                   heightRange |-> 50, waterHeight |-> 0, waterDepth |-> 50,
                   temperature |-> 50,
                   metalDensity |-> cfg.starting_planet_metal,
                   metalClusters |-> 50, biomeScale |-> 50,
                   biome |-> Choice(NextRng(r), StartingBiomes)],
       orbit |-> Orbit(distance)]

\* metal_amount = int(round(base_metal_value * (1 + random.uniform(-0.1, 0.1)))):
\* uniform(-0.1, 0.1) = -0.1 + 0.2 * random(), random() = NextRng(r) / RngMod
MetalAmount(base, r) == RoundHalfEven(base * (9 * RngMod + 2 * NextRng(r)), 10 * RngMod)

\* the planet of one pass of the second loop; r is the generator state at its start
ResourcePlanet(i, cfg, distance, angle, r) ==
  LET px == distance * CosMilli(angle)
      py == distance * SinMilli(angle)
      v  == perp_velocity(px, py, distance)
      r1 == NextRng(r)
      planet_type == IF distance < cfg.base_orbital_distance * 2 THEN "Moon" ELSE "Planet"
  IN  [name |-> <<"Resource ", planet_type, " ">> \o IntToStr(i + 1),
       mass |-> 10000,
       position_x |-> Round2(px), position_y |-> Round2(py),
       velocity_x |-> v[1], velocity_y |-> v[2],
       required_thrust_to_move |-> 5,
       starting_planet |-> FALSE,
       respawn |-> FALSE, start_destroyed |-> FALSE,
       min_spawn_delay |-> 0, max_spawn_delay |-> 0,
       planet |-> [seed |-> RandInt(r1, 0, 999999),
                   radius |-> cfg.additional_planet_radius,
                   heightRange |-> 35, waterHeight |-> 0, waterDepth |-> 50,
                   temperature |-> RandInt(NextRng(r1), 0, 100),
                   metalDensity |-> MetalAmount(cfg.base_metal_value, r),
                   metalClusters |-> 40, biomeScale |-> 50,
                   biome |-> Choice(NextRng(NextRng(r1)), ResourceBiomes)],
       orbit |-> Orbit(distance)]

\* the un-rounded position handed to perp_velocity, kept beside the planets
RawPosition(distance, angle) == [px |-> distance * CosMilli(angle), py |-> distance * SinMilli(angle)]

\* for i in range(2): st = [rng, planets, raw, error]
RECURSIVE StartingLoop(_, _, _, _, _)
StartingLoop(i, cfg, dists, angles, st) ==
  IF st.error # None \/ i = 2 THEN st
  ELSE IF i >= Len(dists) THEN [st EXCEPT !.error = Some("IndexError")]
  ELSE IF dists[i + 1] < 0 THEN [st EXCEPT !.error = Some("ValueError")]
  ELSE StartingLoop(i + 1, cfg, dists, angles,
         [rng |-> NextRng(NextRng(st.rng)),
          planets |-> Append(st.planets, StartingPlanet(i, cfg, dists[i + 1], angles[i + 1], st.rng)),
          raw |-> Append(st.raw, RawPosition(dists[i + 1], angles[i + 1])),
          error |-> None])

RECURSIVE ResourceLoopShort(_, _, _, _, _)
ResourceLoopShort(i, cfg, dists, angles, st) ==
  IF st.error # None \/ i >= cfg.num_additional_planets - 1 THEN st
  ELSE IF dists[i + 3] < 0 THEN [st EXCEPT !.rng = NextRng(st.rng), !.error = Some("ValueError")]
  ELSE ResourceLoopShort(i + 1, cfg, dists, angles,
         [rng |-> NextRng(NextRng(NextRng(NextRng(st.rng)))),
          planets |-> Append(st.planets, ResourcePlanet(i, cfg, dists[i + 3], angles[i + 3], st.rng)),
          raw |-> Append(st.raw, RawPosition(dists[i + 3], angles[i + 3])),
          error |-> None])

\* for i in range(num_additional_planets)
RECURSIVE ResourceLoop(_, _, _, _, _)
ResourceLoop(i, cfg, dists, angles, st) ==
  IF st.error # None \/ i >= cfg.num_additional_planets THEN st
  ELSE IF dists[i + 3] < 0 THEN [st EXCEPT !.rng = NextRng(st.rng), !.error = Some("ValueError")]
  ELSE ResourceLoop(i + 1, cfg, dists, angles,
         [rng |-> NextRng(NextRng(NextRng(NextRng(st.rng)))),
          planets |-> Append(st.planets, ResourcePlanet(i, cfg, dists[i + 3], angles[i + 3], st.rng)),
          raw |-> Append(st.raw, RawPosition(dists[i + 3], angles[i + 3])),
          error |-> None])

\* the two loops, from the generator state the sample left
BuildPlanets(cfg, dists, angles, r) ==
  LET first == StartingLoop(0, cfg, dists, angles,
                            [rng |-> r, planets |-> <<>>, raw |-> <<>>, error |-> None])
  IN  ResourceLoop(0, cfg, dists, angles, first)

\* what a call leaves behind: the value returned or the exception raised, the generator
\* state, and the locals orbital_angles and (px, py)
CallResult(outcome, system, r, angles, raw) ==
  [outcome |-> outcome, system |-> system, rng |-> r, orbital_angles |-> angles, raw |-> raw]

NoSystem == [name |-> <<>>, description |-> <<>>, version |-> "", creator |-> "",
             players |-> <<>>, planets |-> <<>>]

SystemHeader(cfg) ==
  [name |-> IF cfg.system_name = None THEN DefaultName(cfg.num_additional_planets)
            ELSE cfg.system_name[1],
   description |-> <<"Procedural system with 2 starting planets and ">>
                   \o IntToStr(cfg.num_additional_planets) \o <<" additional">>,
   version |-> "1.0",
   creator |-> "PA Titans System Generator",
   players |-> <<2, 10>>,
   planets |-> <<>>]

\* the generator state the body starts from: random.seed(rng_seed) when a seed is given
not_reseeded(rng_seed, r) == r

EntryRng(rng_seed, r) == IF rng_seed # None THEN SeedState(rng_seed[1]) ELSE r

\* generate_system(cfg..., rng_seed) called with the generator in state r
generate_system(cfg, rng_seed, r) ==
  LET r0 == EntryRng(rng_seed, r)
      total_planets == 2 + cfg.num_additional_planets
      orbital_distances == [i \in 1..total_planets |->
                              cfg.base_orbital_distance + (i - 1) * cfg.orbital_distance_step]
  IN  IF total_planets < 0 \/ total_planets > NumAngles
      THEN CallResult("ValueError", NoSystem, r0, <<>>, <<>>)
      ELSE LET sample == SampleFrom(AnglePool, NumAngles, total_planets, r0, <<>>)
               built  == BuildPlanets(cfg, orbital_distances, sample.picked, sample.rng)
           IN  IF built.error # None
               THEN CallResult(built.error[1], NoSystem, built.rng, sample.picked, built.raw)
               ELSE CallResult("returned",
                               [SystemHeader(cfg) EXCEPT !.planets = built.planets],
                               built.rng, sample.picked, built.raw)

----------------------------------------------------------------------------
(* Direct calls of generate_system *)

Config(m, sr, sm, ar, bm, b, d, name) ==
  [num_additional_planets |-> m,
   starting_planet_radius |-> sr, starting_planet_metal |-> sm,
   additional_planet_radius |-> ar, base_metal_value |-> bm,
   base_orbital_distance |-> b, orbital_distance_step |-> d,
   system_name |-> name]

AlphaBeta7 == <<"A", "l", "p", "h", "a", "/", "B", "e", "t", "a", " ", "7">>

\* the planet counts tried: around zero, and at the end of the angle pool
Counts == ((0 - 3)..SmallAdditional) \cup {NumAngles - 2, NumAngles - 1}

\* every count, with the other arguments valid
CountConfigs == {Config(m, 400, 100, 300, 50, 1, 1, None) : m \in Counts}

\* shells: base distance and step, valid and not
ShellConfigs ==
  {Config(m, 400, 100, 300, 50, b, d, None) :
     m \in 0..SmallAdditional, b \in {0 - 1, 0, 1, 25}, d \in (0 - 1)..MaxStep}

\* <<starting radius, starting metal, resource radius, base metal>>, valid and not
Surfaces ==
  {<<400, 100, 300, 50>>, <<400, 100, 300, 5>>, <<400, 100, 300, 1>>, <<200, 50, 150, 20>>,
   <<0, 100, 300, 50>>, <<400, 0, 300, 50>>, <<400, 100, 0 - 150, 50>>,
   <<400, 100, 300, 0>>, <<400, 100, 300, 0 - 5>>}

\* radii and metal values, with and without a custom name
SurfaceConfigs ==
  {Config(SmallAdditional, s[1], s[2], s[3], s[4], 1, 1, name) :
     s \in Surfaces, name \in {None, Some(AlphaBeta7)}}

DirectConfigs == CountConfigs \cup ShellConfigs \cup SurfaceConfigs

Seeds == 0..MaxSeed

\* lastCall before any call: fn names the function called, args its arguments,
\* entry_rng the generator state the body started from
NoCall == [fn |-> "", cfg |-> None, rng_seed |-> None, args |-> <<>>, entry_rng |-> None,
           outcome |-> "none", system |-> NoSystem, orbital_angles |-> <<>>, raw |-> <<>>,
           result |-> <<>>]

\* the record of a call: its arguments beside what it left behind
CallRecord(cfg, rng_seed, entry, res) ==
  [NoCall EXCEPT !.fn = "generate_system", !.cfg = cfg, !.rng_seed = rng_seed,
                 !.entry_rng = Some(entry), !.outcome = res.outcome, !.system = res.system,
                 !.orbital_angles = res.orbital_angles, !.raw = res.raw]

\* a caller binds the arguments of generate_system(..., rng_seed=seed)
CallSeeded ==
  /\ lastCall.outcome # "running"
  /\ \E cfg \in DirectConfigs, seed \in Seeds :
       lastCall' = [NoCall EXCEPT !.fn = "generate_system", !.cfg = Some(cfg),
                                  !.rng_seed = Some(seed), !.outcome = "running"]
  /\ UNCHANGED <<rng, generated_systems, zip_file, download_file>>

\* a caller binds the arguments of generate_system(...), rng_seed left None
CallUnseeded ==
  /\ lastCall.outcome # "running"
  /\ \E cfg \in DirectConfigs :
       lastCall' = [NoCall EXCEPT !.fn = "generate_system", !.cfg = Some(cfg),
                                  !.outcome = "running"]
  /\ UNCHANGED <<rng, generated_systems, zip_file, download_file>>

\* the body of generate_system runs to its return or to the exception it raises
RunGenerateSystem ==
  /\ lastCall.outcome = "running"
  /\ \E res \in {generate_system(lastCall.cfg[1], lastCall.rng_seed, rng)} :
       /\ rng' = res.rng
       /\ lastCall' = CallRecord(lastCall.cfg, lastCall.rng_seed, rng, res)
  /\ UNCHANGED <<generated_systems, zip_file, download_file>>

\* the positions and distances given to perp_velocity in direct calls
PerpMax == 2

PerpCoords == (0 - PerpMax)..PerpMax

\* perp_velocity(px, py, distance), called on its own
CallPerpVelocity ==
  /\ lastCall.outcome # "running"
  /\ \E px \in PerpCoords, py \in PerpCoords, distance \in 0..PerpMax :
       lastCall' = [NoCall EXCEPT !.fn = "perp_velocity", !.args = <<px, py, distance>>,
                                  !.outcome = "returned",
                                  !.result = perp_velocity(px, py, distance)]
  /\ UNCHANGED <<rng, generated_systems, zip_file, download_file>>

\* the process starts with the generator seeded from the operating system
InitGen ==
  /\ rng \in RngStates
  /\ lastCall = NoCall
  /\ generated_systems = None
  /\ zip_file = None
  /\ download_file = None

NextGen == CallSeeded \/ CallUnseeded \/ RunGenerateSystem \/ CallPerpVelocity

SpecGen == InitGen /\ [][NextGen]_vars

----------------------------------------------------------------------------
(* sanitize_filename called on its own *)

\* the characters of the strings tried: a letter, a digit, and the characters the
\* function treats specially or replaces
SanAlphabet == {"a", "7", " ", "_", "-", "/", "."}

RECURSIVE StringsUpTo(_)
StringsUpTo(n) ==
  IF n = 0 THEN {<<>>}
  ELSE StringsUpTo(n - 1)
       \cup {Append(t, c) : t \in {u \in StringsUpTo(n - 1) : Len(u) = n - 1}, c \in SanAlphabet}

SanInputs == StringsUpTo(MaxLen) \cup {AlphaBeta7, DefaultName(3)}

\* the function is pure: a behaviour picks its argument and applies it
InitSan ==
  /\ rng \in RngStates
  /\ lastCall \in {[NoCall EXCEPT !.fn = "sanitize_filename", !.args = <<name>>,
                                  !.outcome = "running"] : name \in SanInputs}
  /\ generated_systems = None
  /\ zip_file = None
  /\ download_file = None

RunSanitize ==
  /\ lastCall.fn = "sanitize_filename" /\ lastCall.outcome = "running"
  /\ lastCall' = [lastCall EXCEPT !.outcome = "returned",
                                  !.result = sanitize_filename(lastCall.args[1])]
  /\ UNCHANGED <<rng, generated_systems, zip_file, download_file>>

SpecSan == InitSan /\ [][RunSanitize]_vars

----------------------------------------------------------------------------
(* ZIP / file helpers *)

\* json.dumps(list, indent=2): the text of a JSON array of the list's elements
JsonDumpsList(list) == [top |-> "array", elements |-> list]

\* json.dumps(dict, indent=2): the text of one JSON object
JsonDumpsDict(dict) == [top |-> "object", elements |-> <<dict>>]

SystemFileNameNoIndex(system, i) == sanitize_filename(system.name) \o <<".pas">>

\* filename = f"{safe_name}_{i+1}.pas", i counting from 0
SystemFileName(system, i) ==
  sanitize_filename(system.name) \o <<"_">> \o IntToStr(i + 1) \o <<".pas">>

\* zf.writestr(f"pa/maps/{filename}", json.dumps([system], indent=2))
SystemEntry(system, i) ==
  [path |-> <<"pa/maps/">> \o SystemFileName(system, i),
   content |-> JsonDumpsList(<<system>>)]

ModInfo ==
  [context |-> "server", identifier |-> "generated_maps", display_name |-> "Generated Maps",
   description |-> "Custom systems generated by Streamlit tool",
   author |-> "PA Titans Community", version |-> "1.0", priority |-> 100]

Readme == [top |-> "text", elements |-> <<"# PA Titans Generated Systems">>]

\* create_zip_file(systems): the entries of the archive, in the order written
create_zip_file(systems) ==
  [i \in 1..Len(systems) |-> SystemEntry(systems[i], i - 1)]
    \o <<[path |-> <<"modinfo.json">>, content |-> JsonDumpsDict(ModInfo)],
         [path |-> <<"README.txt">>, content |-> Readme]>>

\* names for the systems handed to create_zip_file in direct calls: three that sanitize
\* to the same string, and the default
ZipNames == {Some(<<"a", "/", "7">>), Some(<<"a", " ", "7">>), Some(<<"a", "_", "7">>), None}

\* systems as generate_system returns them, one per name
ZipSystems ==
  {generate_system(Config(0, 400, 100, 300, 50, 25, 10, name), Some(0), 0).system :
     name \in ZipNames}

RECURSIVE ListsUpTo(_)
ListsUpTo(n) ==
  IF n = 0 THEN {<<>>}
  ELSE ListsUpTo(n - 1)
       \cup {Append(t, x) : t \in {u \in ListsUpTo(n - 1) : Len(u) = n - 1}, x \in ZipSystems}

\* the function is pure: a behaviour picks its argument and applies it
InitZip ==
  /\ rng \in RngStates
  /\ lastCall \in {[NoCall EXCEPT !.fn = "create_zip_file", !.args = <<systems>>,
                                  !.outcome = "running"] : systems \in ListsUpTo(MaxSystems)}
  /\ generated_systems = None
  /\ zip_file = None
  /\ download_file = None

RunCreateZip ==
  /\ lastCall.fn = "create_zip_file" /\ lastCall.outcome = "running"
  /\ lastCall' = [lastCall EXCEPT !.outcome = "returned",
                                  !.result = create_zip_file(lastCall.args[1])]
  /\ UNCHANGED <<rng, generated_systems, zip_file, download_file>>

SpecZip == InitZip /\ [][RunCreateZip]_vars

----------------------------------------------------------------------------
(* Streamlit UI: one run of the script, top to bottom *)

\* the sidebar: what the widgets hold when the script runs.  The sliders and number
\* inputs keep every argument inside the range in which generate_system returns.
UIAdditional == {1, 3}

UIConfig(m) == Config(m, 400, 100, 300, 50, 25000, 10000, None)

\* custom_name_base is "" unless the checkbox is ticked; the text input may be emptied
CustomNameBases == {<<>>, <<"a", "/", "7">>}

NameInputs == {<<FALSE, <<>>>>} \cup {<<TRUE, base>> : base \in CustomNameBases}

\* system_name of system i: f"{custom_name_base} {i+1}" when a base is given
UISystemName(use_custom_name, base, i) ==
  IF use_custom_name /\ base # <<>> THEN Some(base \o <<" ">> \o IntToStr(i + 1)) ELSE None

\* the loop of the "Generate Systems" handler from system i on; acc = [systems, rng]
RECURSIVE GenerateFrom(_, _, _, _, _, _, _)
GenerateFrom(i, num_systems, m, use_custom_name, base, seed_val, acc) ==
  IF i >= num_systems THEN acc
  ELSE GenerateFrom(i + 1, num_systems, m, use_custom_name, base, seed_val,
         (CHOOSE nxt \in
            {[systems |-> Append(acc.systems, res.system), rng |-> res.rng] :
               res \in {generate_system(
                          [UIConfig(m) EXCEPT !.system_name = UISystemName(use_custom_name, base, i)],
                          IF seed_val # None THEN Some(seed_val[1] + i) ELSE None,
                          acc.rng)}} : TRUE))

IndividualFileBare(sys_obj) ==
  [file_name |-> sanitize_filename(sys_obj.name) \o <<".pas">>,
   data |-> JsonDumpsDict(sys_obj)]

\* the individual download: json.dumps([sys_obj], indent=2) under sanitize(name) + ".pas"
IndividualFile(sys_obj) ==
  [file_name |-> sanitize_filename(sys_obj.name) \o <<".pas">>,
   data |-> JsonDumpsList(<<sys_obj>>)]

\* the "Display and downloads" section for the systems in the session; sel is the
\* index the selectbox holds
ShowDownloads(systems, sel) ==
  /\ zip_file' = Some(create_zip_file(systems))
  /\ download_file' = Some([download_select |-> sel, file |-> IndividualFile(systems[sel + 1])])

\* the sidebar values and the generator state with which the script can start
HandlerInputs ==
  [num_systems : 1..MaxSystems, num_additional : UIAdditional, name_input : NameInputs,
   seed_val : {None} \cup {Some(v) : v \in Seeds}, rng : RngStates]

\* the "Generate Systems" handler run on each of them.  The seed input draws its
\* default from the generator when the seed checkbox is ticked, before the handler runs.
HandlerRuns ==
  {[input |-> in,
    made |-> GenerateFrom(0, in.num_systems, in.num_additional, in.name_input[1],
                          in.name_input[2], in.seed_val,
                          [systems |-> <<>>,
                           rng |-> IF in.seed_val # None THEN NextRng(in.rng) ELSE in.rng])] :
     in \in HandlerInputs}

\* a run in which the button was clicked: the handler replaces the session's systems
RunScriptClicked ==
  \E run \in HandlerRuns :
    /\ run.input.rng = rng
    /\ rng' = run.made.rng
    /\ generated_systems' = Some(run.made.systems)
    /\ \E sel \in 0..(Len(run.made.systems) - 1) : ShowDownloads(run.made.systems, sel)
    /\ UNCHANGED lastCall

\* a run caused by any other widget: the session keeps its systems
RunScriptIdle ==
  \E use_seed \in BOOLEAN :
    /\ rng' = IF use_seed THEN NextRng(rng) ELSE rng
    /\ IF generated_systems = None
       THEN UNCHANGED <<zip_file, download_file>>
       ELSE \E sel \in 0..(Len(generated_systems[1]) - 1) :
              ShowDownloads(generated_systems[1], sel)
    /\ UNCHANGED <<lastCall, generated_systems>>

InitUI ==
  /\ rng \in RngStates
  /\ lastCall = NoCall
  /\ generated_systems = None
  /\ zip_file = None
  /\ download_file = None

NextUI == RunScriptClicked \/ RunScriptIdle

SpecUI == InitUI /\ [][NextUI]_vars

----------------------------------------------------------------------------
(* Claims about generate_system and perp_velocity, checked under SpecGen *)

\* a call of generate_system has run to its end
GenDone == lastCall.fn = "generate_system" /\ lastCall.outcome \notin {"none", "running"}

Returned == GenDone /\ lastCall.outcome = "returned"

Raised == GenDone /\ lastCall.outcome \in {"ValueError", "IndexError"}

Planets == lastCall.system.planets

\* a configuration the specification calls valid: positive radii, metal values,
\* base distance and step, and a planet count the angle pool can serve
ValidConfig(cfg) ==
  /\ cfg.starting_planet_radius > 0 /\ cfg.additional_planet_radius > 0
  /\ cfg.starting_planet_metal > 0 /\ cfg.base_metal_value > 0
  /\ cfg.base_orbital_distance > 0 /\ cfg.orbital_distance_step > 0
  /\ cfg.num_additional_planets >= 0 /\ cfg.num_additional_planets <= NumAngles - 2

\* C1: a seeded call with a valid configuration returns the system that the same call
\* returns from every other state of the random generator, so what ran before it,
\* seeded or not, does not show in its result.
C1_SeededReproducible ==
  (GenDone /\ lastCall.rng_seed # None /\ ValidConfig(lastCall.cfg[1])) =>
    \A r \in RngStates :
      \E other \in {generate_system(lastCall.cfg[1], lastCall.rng_seed, r)} :
        other.outcome = lastCall.outcome /\ other.system = lastCall.system

\* a seeded call returned a system with resource planets, and the generator it found
\* was not in the state its seed sets
C1_Witness ==
  /\ Returned /\ lastCall.rng_seed # None /\ ValidConfig(lastCall.cfg[1])
  /\ Len(Planets) > 2
  /\ lastCall.entry_rng # Some(SeedState(lastCall.rng_seed[1]))

\* the distances B, B+D, ..., B+(N-1)D of a configuration
ShellDistances(cfg) ==
  {cfg.base_orbital_distance + i * cfg.orbital_distance_step :
     i \in 0..(1 + cfg.num_additional_planets)}

\* C2: the orbit distances of a returned system are exactly B, B+D, ..., B+(N-1)D,
\* and each of them is the distance of exactly one planet.
C2_ShellsUsedOnce ==
  Returned =>
    /\ {Planets[j].orbit.distance : j \in 1..Len(Planets)} = ShellDistances(lastCall.cfg[1])
    /\ \A d \in ShellDistances(lastCall.cfg[1]) :
         Cardinality({j \in 1..Len(Planets) : Planets[j].orbit.distance = d}) = 1

\* C3: a returned system has 2 + M planets; the first two are the starting planets and
\* no later planet is one.
C3_TwoStartingFirst ==
  Returned =>
    /\ Len(Planets) = 2 + lastCall.cfg[1].num_additional_planets
    /\ Cardinality({j \in 1..Len(Planets) : Planets[j].starting_planet}) = 2
    /\ \A j \in 1..Len(Planets) : Planets[j].starting_planet <=> j <= 2

\* a system with resource planets was returned
C3_Witness == Returned /\ lastCall.cfg[1].num_additional_planets >= 2

\* C4: a call with an invalid configuration raises and returns no system.
C4_InvalidRejected ==
  (GenDone /\ ~ValidConfig(lastCall.cfg[1])) => (Raised /\ lastCall.system = NoSystem)

\* |px*vx + py*vy| <= 0.5 * (|px| + |py|), twice over to stay in the integers
NearPerpendicular(px, py, vx, vy) == 2 * Abs(px * vx + py * vy) <= Abs(px) + Abs(py)

\* the bound on the velocity perp_velocity returns for the position it is given:
\* direct calls with distance > 0, and the un-rounded (px, py) of every planet
PerpOfGiven ==
  /\ (lastCall.fn = "perp_velocity" /\ lastCall.args[3] > 0) =>
       NearPerpendicular(lastCall.args[1], lastCall.args[2],
                         lastCall.result[1], lastCall.result[2])
  /\ Returned =>
       \A j \in 1..Len(Planets) :
         NearPerpendicular(lastCall.raw[j].px, lastCall.raw[j].py,
                           Planets[j].velocity_x, Planets[j].velocity_y)

\* C5 as stated, for valid configurations alone: the bound holds for what perp_velocity
\* is given and for the position/velocity pair of every planet of a generated system.
C5_StoredPairPerpendicular ==
  /\ PerpOfGiven
  /\ (Returned /\ ValidConfig(lastCall.cfg[1])) =>
       \A j \in 1..Len(Planets) :
         NearPerpendicular(Planets[j].position_x, Planets[j].position_y,
                           Planets[j].velocity_x, Planets[j].velocity_y)

\* C5, amended: the bound holds for the position perp_velocity is given; a planet stores
\* that position rounded to two decimals, and for the stored pair
\* |px*vx + py*vy| <= 0.5 * (|px| + |py|) + 0.005 * (|vx| + |vy| + 1)
\* (positions here are in hundredths, so the inequality is taken 200 times over).
C5_PerpendicularWithinRounding ==
  /\ PerpOfGiven
  /\ Returned =>
       \A j \in 1..Len(Planets) :
         2 * Abs(Planets[j].position_x * Planets[j].velocity_x
                 + Planets[j].position_y * Planets[j].velocity_y)
           <= Abs(Planets[j].position_x) + Abs(Planets[j].position_y)
              + Abs(Planets[j].velocity_x) + Abs(Planets[j].velocity_y) + 1

\* a planet whose velocity components were both rounded away from the exact tangent:
\* its stored position and velocity are not exactly perpendicular
C5_Witness ==
  /\ Returned
  /\ \E j \in 1..Len(Planets) :
       /\ Planets[j].velocity_x # 0 /\ Planets[j].velocity_y # 0
       /\ Planets[j].position_x * Planets[j].velocity_x
            + Planets[j].position_y * Planets[j].velocity_y # 0

\* C6: the metalDensity of every resource planet is within [round(0.9 V), round(1.1 V)]
\* and positive when V >= 1; that of the starting planets is starting_planet_metal.
C6_MetalInterval ==
  Returned =>
    \A j \in 1..Len(Planets) :
      IF j <= 2
      THEN Planets[j].planet.metalDensity = lastCall.cfg[1].starting_planet_metal
      ELSE /\ Planets[j].planet.metalDensity >= RoundHalfEven(9 * lastCall.cfg[1].base_metal_value, 10)
           /\ Planets[j].planet.metalDensity <= RoundHalfEven(11 * lastCall.cfg[1].base_metal_value, 10)
           /\ (lastCall.cfg[1].base_metal_value >= 1 => Planets[j].planet.metalDensity > 0)

CountInRange(cfg) == cfg.num_additional_planets >= 0 /\ cfg.num_additional_planets <= NumAngles - 2

AnglesDistinct ==
  \A i, j \in 1..Len(lastCall.orbital_angles) :
    i # j => lastCall.orbital_angles[i] # lastCall.orbital_angles[j]

\* C10 as stated: the call returns a system exactly when 0 <= M <= 34, with pairwise
\* distinct angles; otherwise it raises and returns nothing.
C10_ReturnsIffCountInRange ==
  GenDone =>
    /\ Returned <=> CountInRange(lastCall.cfg[1])
    /\ Returned => (AnglesDistinct /\ Len(lastCall.orbital_angles) = Len(Planets))
    /\ ~CountInRange(lastCall.cfg[1]) => (Raised /\ lastCall.system = NoSystem)

\* C10, amended: a count outside 0..34 raises (ValueError from the sampling, IndexError
\* from the shell list); with a count inside it the call returns a system, with pairwise
\* distinct angles, exactly when no shell distance B + i*D is negative, and raises
\* ValueError (math.sqrt of a negative distance) when one is.  A call that raises
\* returns nothing.
C10_ReturnsIffCountAndShellsInRange ==
  GenDone =>
    /\ Returned <=> (CountInRange(lastCall.cfg[1])
                     /\ \A d \in ShellDistances(lastCall.cfg[1]) : d >= 0)
    /\ Returned => (AnglesDistinct /\ Len(lastCall.orbital_angles) = Len(Planets))
    /\ ~CountInRange(lastCall.cfg[1]) => Raised
    /\ (CountInRange(lastCall.cfg[1]) /\ ~Returned) => lastCall.outcome = "ValueError"
    /\ Raised => lastCall.system = NoSystem

\* every angle of the pool was handed out: the largest system that can be returned
C10_Witness ==
  /\ Returned
  /\ lastCall.cfg[1].num_additional_planets = NumAngles - 2
  /\ Len(Planets) = NumAngles

----------------------------------------------------------------------------
(* Claims about sanitize_filename, checked under SpecSan *)

SanDone == lastCall.fn = "sanitize_filename" /\ lastCall.outcome = "returned"

\* C7: sanitizing the result again returns it unchanged; the result is as long as the
\* argument, holds only alphanumeric characters, underscores and hyphens, and differs
\* from the argument exactly where that holds a space or a character outside
\* {alphanumeric, space, underscore, hyphen}, where it holds an underscore.
C7_SanitizeIdempotent ==
  SanDone =>
    \E name \in {lastCall.args[1]} : \E safe \in {lastCall.result} :
      /\ sanitize_filename(safe) = safe
      /\ Len(safe) = Len(name)
      /\ \A i \in 1..Len(safe) : IsAlnum(safe[i]) \/ safe[i] \in {"_", "-"}
      /\ \A i \in 1..Len(name) :
           IF IsAlnum(name[i]) \/ name[i] \in {"_", "-"}
           THEN safe[i] = name[i]
           ELSE safe[i] = "_" /\ safe[i] # name[i]

\* "Alpha/Beta 7" became "Alpha_Beta_7"
C7_Witness ==
  /\ SanDone
  /\ lastCall.args[1] = AlphaBeta7
  /\ lastCall.result = <<"A", "l", "p", "h", "a", "_", "B", "e", "t", "a", "_", "7">>

----------------------------------------------------------------------------
(* Claims about create_zip_file, checked under SpecZip *)

ZipDone == lastCall.fn = "create_zip_file" /\ lastCall.outcome = "returned"

\* C8: the archive of N systems has N + 2 entries: the N system files, pairwise distinct
\* in path, each pa/maps/ + sanitize_filename(name) + "_" + (1-based index) + ".pas" in
\* list order, then one modinfo.json and one README.txt.
C8_ArchiveEntries ==
  ZipDone =>
    \E systems \in {lastCall.args[1]} : \E entries \in {lastCall.result} :
      /\ Len(entries) = Len(systems) + 2
      /\ \A i \in 1..Len(systems) :
           entries[i].path = <<"pa/maps/">> \o sanitize_filename(systems[i].name)
                               \o <<"_">> \o IntToStr(i) \o <<".pas">>
      /\ \A i, j \in 1..Len(systems) : i # j => entries[i].path # entries[j].path
      /\ Cardinality({i \in 1..Len(entries) : entries[i].path = <<"modinfo.json">>}) = 1
      /\ Cardinality({i \in 1..Len(entries) : entries[i].path = <<"README.txt">>}) = 1

\* three systems were packed, two of the same name and a third whose different name
\* sanitizes to the same string
C8_Witness ==
  /\ ZipDone
  /\ Len(lastCall.args[1]) = 3
  /\ lastCall.args[1][1].name = lastCall.args[1][2].name
  /\ lastCall.args[1][3].name # lastCall.args[1][1].name
  /\ sanitize_filename(lastCall.args[1][3].name) = sanitize_filename(lastCall.args[1][1].name)

----------------------------------------------------------------------------
(* Claims about the files the page offers, checked under SpecUI *)

\* the text is a JSON array of one element, the system itself
WrapsSystem(text, system) ==
  text.top = "array" /\ Len(text.elements) = 1 /\ text.elements[1] = system

\* C9: every system file of the archive and the individually downloaded file hold a JSON
\* array of one element, the System with its planets in the order they were placed.
C9_EveryFileWrapped ==
  /\ zip_file # None =>
       \A i \in 1..Len(generated_systems[1]) :
         WrapsSystem(zip_file[1][i].content, generated_systems[1][i])
  /\ download_file # None =>
       WrapsSystem(download_file[1].file.data,
                   generated_systems[1][download_file[1].download_select + 1])

\* the page offers an archive of three systems and the single file of the last of them
C9_Witness ==
  /\ zip_file # None /\ download_file # None
  /\ Len(generated_systems[1]) = 3
  /\ Len(zip_file[1]) = 5
  /\ download_file[1].download_select = 2
  /\ Len(download_file[1].file.data.elements[1].planets) >= 3

====
